---- MODULE Spec2Model ----
(***************************************************************************)
(* Stream adapters of zstd-purego: the compressing Writer and the          *)
(* decompressing Reader (src/unnamed/part_004), the constructors and the   *)
(* one-shot Compress/Decompress (src/zstd.go), over the native engine      *)
(* behind the purego bindings.                                             *)
(*                                                                         *)
(* A call of Write, Flush, Close or Read is one action up to the end of    *)
(* the first iteration of its loop; every further iteration of the loop is *)
(* one more action (wpc / rpc hold the call in progress), and the          *)
(* iteration that leaves the loop also returns.  Calls never overlap: the  *)
(* adapters are driven from one thread.                                    *)
(***************************************************************************)
EXTENDS Integers, Sequences, FiniteSets, TLC

VARIABLES
    w,          \* the Writer's fields (stream, ctx, inBuffer, outBuffer, buffer)
    cs,         \* the native compression session behind w.stream
    sink,       \* the bytes the io.Writer under the Writer has accepted
    wpc,        \* the Writer call in progress: idle, write, flush or close
    wp,         \* the slice p of the current or last Write
    wret,       \* what the last Writer call returned
    wnat,       \* the native calls the current or last Writer call made
    r,          \* the Reader's fields
    ds,         \* the native decompression session behind r.stream
    src,        \* how many bytes of the source the Reader has pulled
    rpc,        \* the Reader call in progress: idle or read
    rcap,       \* len(p) of the current or last Read
    rret,       \* what the last Reader call returned
    rnat,       \* the native calls the current or last Reader call made
    h,          \* history: what the calls so far did (read by the properties only)
    os,         \* the one-shot calls: the data, the level, what Compress and
                \* Decompress returned
    z,          \* the Zstd value the adapters and the goroutines share
    g           \* the goroutines calling the dictionary functions of z

vars == <<w, cs, sink, wpc, wp, wret, wnat, r, ds, src, rpc, rcap, rret, rnat, h, os, z, g>>
wvars == <<w, cs, sink, wpc, wp, wret, wnat>>
rvars == <<r, ds, src, rpc, rcap, rret, rnat>>
svars == <<os, z, g>>

---------------------------------------------------------------------------
(* Bounds of the model *)

\* Bytes a caller hands to Write over a whole run.
MaxInput == 2
\* Capacity of w.buffer, r.buffer and r.readBuffer (the source sizes them
\* 32 KiB and 16 KiB; the loops below do not depend on the value).
WriteBufferSize == 1
ReadBufferSize == 2
\* Largest len(p) a caller passes to Read.
MaxP == 2
\* Faults injected into the Writer's calls over a run, and into the Reader's:
\* engine faults, failed creations, sink and source errors.
MaxFaults == 1
\* Consecutive engine steps without progress the model follows in one Read.
MaxStall == 2

\* The caller's bytes: the i-th byte handed to Write over a run is i, so that
\* a byte lost, repeated or out of order shows in what the Reader delivers.
Byte == 1..MaxInput

---------------------------------------------------------------------------
(* Constants of the program *)

EndContinue == 0
EndFlush == 1
EndEnd == 2

---------------------------------------------------------------------------
(* Sequences *)

Min(a, b) == IF a < b THEN a ELSE b
Take(s, n) == SubSeq(s, 1, Min(n, Len(s)))
Drop(s, n) == SubSeq(s, n + 1, Len(s))

\* Go's copy(dst, src): the number of elements copied, min(len(dst), len(src)).
copy(dstLen, srcLen) == Min(dstLen, srcLen)

---------------------------------------------------------------------------
(* The native engine.  A frame is a magic byte, one code per input byte    *)
(* and an end mark; the engine buffers input and output internally and     *)
(* reports what is left to flush.                                          *)

Magic == 90
EndMark == 91
EncShift == 10
\* Results at or above ErrorBase are fault codes (ZSTD_isError).
ErrorBase == 1000000

isError(result) == IF result >= ErrorBase THEN 1 ELSE 0

Encode(s) == [i \in 1..Len(s) |-> s[i] + EncShift]
IsCode(b) == (b - EncShift) \in Byte
Decode(b) == b - EncShift

\* A freshly created compression / decompression session.
\* The compression level of a session nobody has configured.
DefaultLevel == 3

NewCStream == [stage |-> "init", inb |-> <<>>, outb |-> <<>>, level |-> DefaultLevel]
NewDStream == [stage |-> "hdr", pend |-> <<>>]

\* ZSTD_compressStream2(stream, out, in, mode): the outcomes of one step
\* without a fault.  `inp` is the unconsumed part of the input cursor, `cap`
\* the room in the output cursor.  In continue mode the engine takes any
\* part of the input and decides itself when to compress what it holds, but
\* makes some progress; in flush and end mode it takes everything,
\* compresses what it holds (in end mode followed by the end of the frame),
\* emits what fits and returns what is left to flush.
compressStream2(c, cap, inp, mode) ==
    { o \in
        { LET k == kb[1]
              blk == kb[2] \/ mode # EndContinue
              held == c.inb \o Take(inp, k)
              head == IF c.stage = "init" THEN <<Magic>> ELSE <<>>
              tail == IF mode = EndEnd /\ c.stage # "ended" THEN <<EndMark>> ELSE <<>>
              made == IF blk THEN c.outb \o head \o Encode(held) \o tail ELSE c.outb
              n == Min(cap, Len(made))
          IN  [ c |-> [stage |-> IF ~blk THEN c.stage
                                 ELSE IF mode = EndEnd THEN "ended" ELSE "open",
                       inb |-> IF blk THEN <<>> ELSE held,
                       outb |-> Drop(made, n),
                       level |-> c.level],
                used |-> k,
                out |-> Take(made, n),
                result |-> Len(made) - n ]
          : kb \in (0..Len(inp)) \X BOOLEAN } :
        IF mode = EndContinue
        THEN o.used > 0 \/ Len(o.out) > 0
        ELSE o.used = Len(inp) }

RECURSIVE Feed(_, _, _)
\* The decoder d after parsing at most k leading bytes of inp; parsing stops
\* at the end mark.  bad: a byte that is no part of a frame.
Feed(d, inp, k) ==
    IF k = 0 \/ inp = <<>> \/ d.stage = "done"
    THEN [d |-> d, used |-> 0, bad |-> FALSE]
    ELSE LET b == Head(inp)
             ok == IF d.stage = "hdr" THEN b = Magic ELSE (b = EndMark \/ IsCode(b))
             d1 == IF d.stage = "hdr" THEN [d EXCEPT !.stage = "body"]
                   ELSE IF b = EndMark THEN [d EXCEPT !.stage = "done"]
                   ELSE [d EXCEPT !.pend = Append(@, Decode(b))]
             rest == Feed(d1, Tail(inp), k - 1)
         IN  IF ~ok THEN [d |-> d, used |-> 0, bad |-> TRUE]
             ELSE [d |-> rest.d, used |-> rest.used + 1, bad |-> rest.bad]

\* ZSTD_decompressStream(stream, out, in): the outcomes of one step.  The
\* engine parses some of the input (some progress when there is input and
\* room), emits what fits of the decoded bytes and returns 0 once the frame
\* has ended and everything decoded has been emitted.  With no input and
\* nothing decoded left it returns a non-zero hint and changes nothing.
decompressStream(d, cap, inp) ==
    { o \in
        { LET f == Feed(d, inp, k)
              n == Min(cap, Len(f.d.pend))
              d2 == [f.d EXCEPT !.pend = Drop(@, n)]
          IN  IF f.bad
              THEN [d |-> f.d, used |-> f.used, out |-> <<>>, result |-> ErrorBase]
              ELSE [d |-> d2, used |-> f.used, out |-> Take(f.d.pend, n),
                    result |-> IF d2.stage = "done" /\ d2.pend = <<>> THEN 0 ELSE 1]
          : k \in 0..Len(inp) } :
        \/ o.used > 0
        \/ Len(o.out) > 0
        \/ isError(o.result) # 0
        \/ inp = <<>>
        \/ d.stage = "done" }

---------------------------------------------------------------------------
(* The Writer (src/unnamed/part_004, lines 165-326) *)

Nil == 0

\* The io.Writer under the Writer: it accepts all of b, or fails having
\* accepted a proper prefix of it.  [add, err]
SinkWrite(b) ==
    {[add |-> b, err |-> "nil"]}
    \cup {[add |-> Take(b, j), err |-> "sink"] : j \in 0..(Len(b) - 1)}

\* A faulty return that wraps the error of the sink or the source in one of
\* its own: the properties of the error returns below must tell it from the
\* real one.
PropagateWrapped(err) == "wrapped"

\* `return ..., err` with the error the sink or the source returned (lines
\* 79, 215, 255, 311).
Propagate(err) == err

\* A faulty reset that leaves the output cursor where the last step left it:
\* the properties of the cursors below must tell it from the real one.
ResetOutputStale(pos, size) == [pos |-> pos, size |-> size]

\* The output cursor before a native step: over the whole staging buffer of
\* `size` bytes, nothing filled (lines 199-201, 239-241, 291-293; 93-95).
ResetOutput(pos, size) == [pos |-> 0, size |-> size]

\* No native step yet: no hint was returned.
NoHint == -1

\* No native step yet: no output cursor was handed to the engine.
NoCursor == [pos |-> -1, size |-> -1]

\* One native step of the Writer: the output cursor is reset to the whole of
\* w.buffer, the engine is called and fills the room after cur.pos, or it
\* reports a fault instead.  [w, c, used, result, cur]
WriterStep(w0, c0, p, mode) ==
    LET cur == ResetOutput(w0.outPos, WriteBufferSize)
        reset == [w0 EXCEPT !.outPos = cur.pos, !.buffer = Take(@, cur.pos)]
    IN  { [w |-> [reset EXCEPT !.inPos = @ + o.used, !.outPos = @ + Len(o.out),
                               !.buffer = @ \o o.out],
           c |-> o.c, used |-> o.used, result |-> o.result, cur |-> cur]
          : o \in compressStream2(c0, cur.size - cur.pos, Drop(p, w0.inPos), mode) }
        \cup {[w |-> reset, c |-> c0, used |-> 0, result |-> ErrorBase, cur |-> cur]}

\* An iteration's outcome: the Writer's fields and the session after it, the
\* bytes the sink accepted, the input the engine took, whether the call
\* returns and what, what the sink returned ("none": it was not called), the
\* native calls made, whether a fault struck, and of the native step s the
\* output cursor it was handed and what it returned.
Outcome(w1, s, c1, add, used, done, n, err, io, nat) ==
    [w |-> w1, cur |-> s.cur, hint |-> s.result, c |-> c1, add |-> add, used |-> used,
     done |-> done, n |-> n, err |-> err, io |-> io, nat |-> nat, fault |-> err # "nil"]

\* A faulty loop condition, leaving the last byte of p to a later call: the
\* properties of Write below must tell it from the real one.
WriteMoreEarly(w1) == w1.inPos + 1 < w1.inSize

\* The loop condition of Write (line 197).
WriteMore(w1) == w1.inPos < w1.inSize

\* What Write returns when the engine or the sink fails (lines 208, 215).
WriteErrCount(w1) == w1.inPos

\* A faulty count for the return of line 220, one short of len(p): the
\* properties of Write below must tell it from the real one.
WriteOkCountShort(p) == Len(p) - 1

\* What Write returns when the loop ends (line 220).
WriteOkCount(p) == Len(p)

\* A faulty test, forwarding only steps that produced more than one byte:
\* the properties of the forwarding below must tell it from the real one.
HasOutputMany(w1) == w1.outPos > 1

\* Lines 212, 252, 306: the step left compressed bytes in w.buffer.
HasOutput(w1) == w1.outPos > 0

\* One iteration of the loop of Write (lines 197-218), and the return at
\* line 220 when the loop ends.
WriteIter(w0, c0, p) ==
    UNION { IF isError(s.result) # 0
            THEN {Outcome(s.w, s, s.c, <<>>, s.used, TRUE, WriteErrCount(s.w), "engine", "none",
                          {"compressStream2"})}
            ELSE IF HasOutput(s.w)
            THEN { IF k.err = "nil"
                   THEN Outcome(s.w, s, s.c, k.add, s.used, ~WriteMore(s.w),
                                IF WriteMore(s.w) THEN 0 ELSE WriteOkCount(p), "nil", k.err,
                                {"compressStream2"})
                   ELSE Outcome(s.w, s, s.c, k.add, s.used, TRUE, WriteErrCount(s.w), Propagate(k.err), k.err,
                                {"compressStream2"})
                   : k \in SinkWrite(Take(s.w.buffer, s.w.outPos)) }
            ELSE {Outcome(s.w, s, s.c, <<>>, s.used, ~WriteMore(s.w),
                          IF WriteMore(s.w) THEN 0 ELSE WriteOkCount(p), "nil", "none",
                          {"compressStream2"})}
            : s \in WriterStep(w0, c0, p, EndContinue) }

\* A faulty directive for Flush, ending the frame: the properties of Flush
\* below must tell it from the real one.
FlushModeEnd == EndEnd

\* The directive Flush passes to the engine (line 244).
FlushMode == EndFlush

\* A faulty exit test that leaves the loop after the first step: the
\* properties of the drain loops below must tell it from the real one.
FlushCompleteAlways(result) == TRUE

\* The exit test of the loop of Flush (line 260).
FlushComplete(result) == result = 0

\* One iteration of the loop of Flush (lines 237-263), and the return at
\* line 265 when the loop ends.  No path of Flush frees the session.
FlushIter(w0, c0) ==
    UNION { IF isError(s.result) # 0
            THEN {Outcome(s.w, s, s.c, <<>>, 0, TRUE, 0, "engine", "none", {"compressStream2"})}
            ELSE IF HasOutput(s.w)
            THEN { IF k.err = "nil"
                   THEN Outcome(s.w, s, s.c, k.add, 0, FlushComplete(s.result), 0, "nil", k.err,
                                {"compressStream2"})
                   ELSE Outcome(s.w, s, s.c, k.add, 0, TRUE, 0, Propagate(k.err), k.err, {"compressStream2"})
                   : k \in SinkWrite(Take(s.w.buffer, s.w.outPos)) }
            ELSE {Outcome(s.w, s, s.c, <<>>, 0, FlushComplete(s.result), 0, "nil", "none",
                          {"compressStream2"})}
            : s \in WriterStep(w0, c0, <<>>, FlushMode) }

\* The exit test of the loop of Close (line 316).
EndComplete(result) == result = 0

\* A faulty deferred function, leaving w.ctx set after freeing it: the
\* properties of the handles below must tell it from the real one.
CloseDeferredKeep(w1) == w1

\* The deferred function of Close (lines 270-275): free the context once.
CloseDeferred(w1) == [w1 EXCEPT !.ctx = Nil]
DeferredCalls(w1) == IF w1.ctx # Nil THEN {"freeCCtx"} ELSE {}

\* A faulty release, leaving w.stream set: the properties of Close below must
\* tell it from the real one.
FreeStreamKeep(w1) == w1

\* freeCStream(w.stream); w.stream = nil (lines 300-301, 309-310, 322-323).
FreeStream(w1) == [w1 EXCEPT !.stream = Nil]

\* One iteration of the loop of Close (lines 289-319); every return frees
\* the session and runs the deferred function.
CloseIter(w0, c0) ==
    LET freed(w1) == CloseDeferred(FreeStream(w1))
        calls(w1) == {"compressStream2", "freeCStream"} \cup DeferredCalls(w1)
    IN
    UNION { IF isError(s.result) # 0
            THEN {Outcome(freed(s.w), s, s.c, <<>>, 0, TRUE, 0, "engine", "none", calls(s.w))}
            ELSE IF HasOutput(s.w)
            THEN { IF k.err = "nil"
                   THEN IF EndComplete(s.result)
                        THEN Outcome(freed(s.w), s, s.c, k.add, 0, TRUE, 0, "nil", k.err, calls(s.w))
                        ELSE Outcome(s.w, s, s.c, k.add, 0, FALSE, 0, "nil", k.err, {"compressStream2"})
                   ELSE Outcome(freed(s.w), s, s.c, k.add, 0, TRUE, 0, Propagate(k.err), k.err, calls(s.w))
                   : k \in SinkWrite(Take(s.w.buffer, s.w.outPos)) }
            ELSE IF EndComplete(s.result)
                 THEN {Outcome(freed(s.w), s, s.c, <<>>, 0, TRUE, 0, "nil", "none", calls(s.w))}
                 ELSE {Outcome(s.w, s, s.c, <<>>, 0, FALSE, 0, "nil", "none", {"compressStream2"})}
            : s \in WriterStep(w0, c0, <<>>, EndEnd) }

\* w.inBuffer = {nil, 0, 0} (lines 230-232, 282-284).
EmptyInput(w0) == [w0 EXCEPT !.inSize = 0, !.inPos = 0]

\* The caller reads back what the Writer left in the sink once the Writer
\* has been closed and no call of it has failed; from then on the Writer is
\* left alone.
WriterDone == wpc = "idle" /\ wret.op = "close" /\ h.faults = 0
ReaderUnused == rpc = "idle" /\ rret.op = "none"

\* A Writer call may start: none is in progress.
Callable == wpc = "idle" /\ ReaderUnused

\* A native handle: what it is and the pointer value.
Handle(kind, ptr) == <<kind, ptr>>

\* The history hist after a step that created the handles `made` and passed
\* the handles `freed` to their free functions: the handles alive, and
\* whether a free function has been given a handle that was not alive.
Tracked(hist, made, freed) ==
    [hist EXCEPT !.live = (@ \cup made) \ freed,
                 !.badfree = @ \/ ~(freed \subseteq (hist.live \cup made))]

\* The handles the native calls `nat` of a Writer step free, the step having
\* run with w.stream = stream and w.ctx = ctx.
WriterFrees(nat, stream, ctx) ==
    (IF "freeCStream" \in nat THEN {Handle("cstream", stream)} ELSE {})
    \cup (IF "freeCCtx" \in nat THEN {Handle("cctx", ctx)} ELSE {})

\* The history after iteration x of a Writer call on slice p, the input
\* cursor having stood at pos0.
WriterHist(x, p, pos0, created) ==
    LET stream == IF created THEN h.wsess + 1 ELSE w.stream
    IN  [Tracked(h, IF created THEN {Handle("cstream", stream)} ELSE {},
                 WriterFrees(x.nat, stream, w.ctx))
            EXCEPT !.written = @ \o SubSeq(p, pos0 + 1, pos0 + x.used),
                   !.wio = x.io,
                   !.wcur = x.cur,
                   !.whint = x.hint,
                   !.faults = @ + (IF x.fault THEN 1 ELSE 0),
                   !.wsess = @ + (IF created THEN 1 ELSE 0)]

\* What a Writer call returns: (n, err) of a Write of len bytes, err of a
\* Flush or a Close.
WriterReturn(op, len, n, err) == [op |-> op, len |-> len, n |-> n, err |-> err]
WriterRunning == WriterReturn("none", 0, 0, "nil")

\* The primed Writer variables after iteration x of call op on slice p.
WriterTakes(x, op, p, nat) ==
    /\ w' = x.w
    /\ cs' = IF x.w.stream = Nil THEN NewCStream ELSE x.c
    /\ sink' = sink \o x.add
    /\ wp' = IF x.done THEN <<>> ELSE p
    /\ wpc' = IF x.done THEN "idle" ELSE op
    /\ wret' = IF x.done THEN WriterReturn(op, Len(p), x.n, x.err) ELSE WriterRunning
    /\ wnat' = nat \cup x.nat

\* Write(p), len(p) = 0 (lines 179-181).
WriteEmpty ==
    /\ Callable
    /\ wret' = WriterReturn("write", 0, 0, "nil")
    /\ wnat' = {}
    /\ h' = [h EXCEPT !.wio = "none"]
    /\ UNCHANGED <<w, cs, sink, wpc, wp>>
    /\ UNCHANGED <<rvars, svars>>

\* Write(p), createCStream returns nil (lines 184-188).
WriteCreateFails(p) ==
    /\ Callable
    /\ Len(p) > 0
    /\ w.stream = Nil
    /\ h.faults < MaxFaults
    /\ wret' = WriterReturn("write", Len(p), 0, "create")
    /\ wnat' = {"createCStream"}
    /\ h' = [h EXCEPT !.faults = @ + 1, !.wio = "none"]
    /\ UNCHANGED <<w, cs, sink, wpc, wp>>
    /\ UNCHANGED <<rvars, svars>>

\* Write(p) up to the end of the first iteration of its loop (lines 178-218).
Write(p) ==
    /\ Callable
    /\ Len(p) > 0
    /\ LET created == w.stream = Nil
           w0 == [w EXCEPT !.stream = IF created THEN h.wsess + 1 ELSE @,
                           !.inSize = Len(p), !.inPos = 0]
           c0 == IF created THEN NewCStream ELSE cs
       IN  \E x \in WriteIter(w0, c0, p) :
              /\ x.fault => h.faults < MaxFaults
              /\ WriterTakes(x, "write", p, IF created THEN {"createCStream"} ELSE {})
              /\ h' = WriterHist(x, p, 0, created)
    /\ UNCHANGED <<rvars, svars>>

\* A further iteration of the loop of Write.
WriteNext ==
    /\ wpc = "write"
    /\ \E x \in WriteIter(w, cs, wp) :
          /\ x.fault => h.faults < MaxFaults
          /\ WriterTakes(x, "write", wp, wnat)
          /\ h' = WriterHist(x, wp, w.inPos, FALSE)
    /\ UNCHANGED <<rvars, svars>>

\* Flush with no session (lines 225-227).
FlushNil ==
    /\ Callable
    /\ w.stream = Nil
    /\ wret' = WriterReturn("flush", 0, 0, "nil")
    /\ wnat' = {}
    /\ h' = [h EXCEPT !.wio = "none"]
    /\ UNCHANGED <<w, cs, sink, wpc, wp>>
    /\ UNCHANGED <<rvars, svars>>

\* The history after iteration x of Flush.
FlushHist(x) ==
    [WriterHist(x, <<>>, 0, FALSE) EXCEPT
        !.flushed = IF x.done /\ x.err = "nil" THEN Len(h.written) ELSE @]

\* Flush up to the end of the first iteration of its loop (lines 224-263).
Flush ==
    /\ Callable
    /\ w.stream # Nil
    /\ \E x \in FlushIter(EmptyInput(w), cs) :
          /\ x.fault => h.faults < MaxFaults
          /\ WriterTakes(x, "flush", <<>>, {})
          /\ h' = FlushHist(x)
    /\ UNCHANGED <<rvars, svars>>

\* A further iteration of the loop of Flush.
FlushNext ==
    /\ wpc = "flush"
    /\ \E x \in FlushIter(w, cs) :
          /\ x.fault => h.faults < MaxFaults
          /\ WriterTakes(x, "flush", <<>>, wnat)
          /\ h' = FlushHist(x)
    /\ UNCHANGED <<rvars, svars>>

\* Close with no session (lines 269-279): only the deferred function runs.
CloseNil ==
    /\ Callable
    /\ w.stream = Nil
    /\ w' = CloseDeferred(w)
    /\ wret' = WriterReturn("close", 0, 0, "nil")
    /\ wnat' = DeferredCalls(w)
    /\ h' = [Tracked(h, {}, WriterFrees(DeferredCalls(w), w.stream, w.ctx))
                EXCEPT !.wclosed = TRUE, !.wio = "none"]
    /\ UNCHANGED <<cs, sink, wpc, wp>>
    /\ UNCHANGED <<rvars, svars>>

\* The history after iteration x of Close.
CloseHist(x) ==
    [WriterHist(x, <<>>, 0, FALSE) EXCEPT !.wclosed = @ \/ x.done]

\* Close up to the end of the first iteration of its loop (lines 269-319).
Close ==
    /\ Callable
    /\ w.stream # Nil
    /\ \E x \in CloseIter(EmptyInput(w), cs) :
          /\ x.fault => h.faults < MaxFaults
          /\ WriterTakes(x, "close", <<>>, {})
          /\ h' = CloseHist(x)
    /\ UNCHANGED <<rvars, svars>>

\* A further iteration of the loop of Close.
CloseNext ==
    /\ wpc = "close"
    /\ \E x \in CloseIter(w, cs) :
          /\ x.fault => h.faults < MaxFaults
          /\ WriterTakes(x, "close", <<>>, wnat)
          /\ h' = CloseHist(x)
    /\ UNCHANGED <<rvars, svars>>

\* The slices a caller may pass to Write: the next n bytes of its data.
Slices == { [i \in 1..n |-> Len(h.written) + i] : n \in 1..(MaxInput - Len(h.written)) }

\* NewWriter (src/zstd.go, lines 106-114): createCCtx is called at once (it
\* returns context `ctx`); no session yet.
NewWriter(ctx, level) ==
    [stream |-> Nil, ctx |-> ctx, level |-> level,
     inSize |-> 0, inPos |-> 0, outPos |-> 0, buffer |-> <<>>]

\* The level the caller passes to NewWriter.
BestCompression == 19
WriterLevel == BestCompression

\* The native calls NewWriter makes (src/zstd.go, line 110).
NewWriterCalls == {"createCCtx"}

\* h.flushed before any Flush of an open session has returned nil; after
\* one, the number of bytes written by then.
NoFlush == -1

InitHist ==
    [written |-> <<>>, faults |-> 0, wsess |-> 0, wclosed |-> FALSE, flushed |-> NoFlush,
     live |-> {}, badfree |-> FALSE, wio |-> "none", rio |-> "nil", decoded |-> <<>>,
     wcur |-> NoCursor, rcur |-> NoCursor, consumed |-> <<>>, whint |-> NoHint,
     reof |-> FALSE,
     delivered |-> <<>>, rfaults |-> 0, rclosed |-> FALSE, rdone |-> FALSE, rzero |-> FALSE, rstall |-> 0]

InitWriter ==
    /\ w = NewWriter(1, WriterLevel)
    /\ cs = NewCStream
    /\ sink = <<>>
    /\ wpc = "idle"
    /\ wp = <<>>
    /\ wret = WriterRunning
    /\ wnat = NewWriterCalls

---------------------------------------------------------------------------
(* The Reader (src/unnamed/part_004, lines 9-163) *)

\* The io.Reader under the Reader holds the bytes the sink accepted.  A pull
\* into a buffer of cap bytes, `avail` bytes being left: some bytes, with
\* end-of-input or not when they are the last; no bytes and no error (a
\* source that has nothing yet); end-of-input; or an error.  [n, err]
SourceRead(cap, avail) ==
    {[n |-> n, err |-> "nil"] : n \in 0..Min(cap, avail)}
    \cup (IF avail <= cap THEN {[n |-> avail, err |-> "EOF"]} ELSE {})
    \cup {[n |-> 0, err |-> "source"]}

\* Lines 59-71: the input cursor after a pull of bytes b (empty: nil, 0, 0).
Refill(r0, b) == [r0 EXCEPT !.buffer = b, !.inSize = Len(b), !.inPos = 0]

\* A faulty test that pulls from the source in every iteration, as the Read
\* without the refill loop did: the properties of the pulls below must tell
\* it from the real one.
InputExhaustedAlways(r0) == TRUE

\* Line 59: the input cursor is used up.
InputExhausted(r0) == r0.inPos >= r0.inSize

\* A faulty copy, advancing r.pos past all that is staged whatever p holds:
\* the properties of the delivery below must tell it from the real one.
ServeAll(r0, cap) == [r0 EXCEPT !.pos = r0.end]

\* Lines 146-147 (and 28-29): copy what is staged into p, advance r.pos.
Serve(r0, cap) == [r0 EXCEPT !.pos = @ + copy(cap, r0.end - r0.pos)]
Served(r0, cap) == SubSeq(r0.readBuffer, r0.pos + 1, r0.pos + copy(cap, r0.end - r0.pos))

\* A faulty test that never finds staged bytes: the properties of the
\* leftovers below must tell it from the real one.
HasLeftoverNever(r0) == FALSE

\* Line 27: decompressed bytes of an earlier step are still staged.
HasLeftover(r0) == r0.pos < r0.end

\* An iteration's outcome: the Reader's fields and the session after it, the
\* bytes pulled from the source, whether the call returns and what, what
\* the source returned ("none": it was not called), the bytes handed to the
\* caller, the bytes the engine produced, the native calls made, what
\* happened on the way (a fault, an empty pull without error, the
\* frame-complete hint, a step that changed nothing), and the output cursor
\* the engine was handed (NoCursor: it was not called).
ROutcome(r1, cur, d1, pulled, done, n, err, io, gave, out, nat, fault, zero, hint0, still) ==
    [r |-> r1, cur |-> cur, d |-> d1, pulled |-> pulled, done |-> done, n |-> n, err |-> err,
     io |-> io, gave |-> gave, out |-> out, nat |-> nat, fault |-> fault, zero |-> zero,
     hint0 |-> hint0, still |-> still]

\* A faulty test that returns after every engine step, as the Read without
\* the refill loop did: the properties of Read below must tell it from the
\* real one.
StagedAlways(r1) == r1.end >= 0

\* Lines 120 and 137: the step left decompressed bytes in r.readBuffer.
Staged(r1) == r1.end > 0

\* Line 101: an engine fault marks the stream as ended.
MarkEndedOnError(r1) == [r1 EXCEPT !.streamEnded = TRUE]

\* Lines 91-149: the native step of an iteration with the Reader's fields
\* r1 (after any pull), and what follows it.  `io`: what the source returned
\* in this iteration.
ReadStep(r1, d1, cap, pulled, nat, io) ==
    LET cur == ResetOutput(r1.outPos, ReadBufferSize)
        reset == [r1 EXCEPT !.outPos = cur.pos]
        calls == nat \cup {"decompressStream"}
        inp == SubSeq(r1.buffer, r1.inPos + 1, r1.inSize)
    IN  { IF isError(o.result) # 0
          THEN ROutcome(MarkEndedOnError([reset EXCEPT !.inPos = @ + o.used]), cur, o.d, pulled,
                        TRUE, 0, "engine", io, <<>>, <<>>, calls, FALSE, FALSE, FALSE, FALSE)
          ELSE LET r2 == [reset EXCEPT !.inPos = @ + o.used, !.outPos = @ + Len(o.out),
                                       !.readBuffer = o.out, !.end = Len(o.out),
                                       !.streamEnded = (o.result = 0)]
               IN  IF Staged(r2)
                   THEN ROutcome(Serve(r2, cap), cur, o.d, pulled, TRUE, copy(cap, r2.end), "nil",
                                 io, Served(r2, cap), o.out, calls,
                                 FALSE, FALSE, o.result = 0, FALSE)
                   ELSE IF o.result = 0
                   THEN ROutcome(r2, cur, o.d, pulled, TRUE, 0, "EOF", io, <<>>, o.out, calls,
                                 FALSE, FALSE, TRUE, FALSE)
                   ELSE ROutcome(r2, cur, o.d, pulled, FALSE, 0, "nil", io, <<>>, o.out, calls,
                                 FALSE, FALSE, FALSE, o.used = 0 /\ io = "EOF")
          : o \in decompressStream(d1, cur.size - cur.pos, inp) }
        \cup {ROutcome(MarkEndedOnError(reset), cur, d1, pulled, TRUE, 0, "engine", io, <<>>, <<>>,
                       calls, TRUE, FALSE, FALSE, FALSE)}

\* A faulty test that takes end-of-input for a failure of the source, as
\* the Read without the refill loop did: the properties of the end of the
\* source below must tell it from the real one.
SourceFailedAtEOF(err) == err # "nil"

\* Line 73-74: the source returned an error that is not end-of-input.
SourceFailed(err) == err \notin {"nil", "EOF"}

\* One iteration of the loop of Read (lines 45-132) with the session there,
\* and the return (lines 137-149) when the loop ends.  `rest`: the bytes the
\* source has left.
ReadIter(r0, d0, cap, rest, nat) ==
    IF InputExhausted(r0)
    THEN UNION { IF SourceFailed(q.err)
                 THEN {ROutcome(Refill(r0, <<>>), NoCursor, d0, 0, TRUE, 0, Propagate(q.err), q.err,
                                <<>>, <<>>, nat, TRUE, FALSE, FALSE, FALSE)}
                 ELSE IF q.n = 0 /\ q.err = "nil"
                 THEN {ROutcome(Refill(r0, <<>>), NoCursor, d0, 0, TRUE, 0, "nil", q.err,
                                <<>>, <<>>, nat, FALSE, TRUE, FALSE, FALSE)}
                 ELSE ReadStep(Refill(r0, Take(rest, q.n)), d0, cap, q.n, nat, q.err)
                 : q \in SourceRead(ReadBufferSize, Len(rest)) }
    ELSE ReadStep(r0, d0, cap, 0, nat, "none")

\* Lines 39-40: the staging cursors are reset before the loop.
ResetStaging(r0) == [r0 EXCEPT !.pos = 0, !.end = 0, !.readBuffer = <<>>]

\* What a Reader call returns: (n, err) of a Read into len(p) = cap bytes,
\* err of a Close.
ReaderReturn(op, cap, n, err) == [op |-> op, cap |-> cap, n |-> n, err |-> err]
ReaderRunning == ReaderReturn("none", 0, 0, "nil")

\* The primed Reader variables and history after iteration x of a Read;
\* `created`: the call created the session.
ReaderTakes(x, cap, created) ==
    /\ r' = x.r
    /\ ds' = x.d
    /\ src' = src + x.pulled
    /\ rpc' = IF x.done THEN "idle" ELSE "read"
    /\ rcap' = IF x.done THEN 0 ELSE cap
    /\ rret' = IF x.done THEN ReaderReturn("read", cap, x.n, x.err) ELSE ReaderRunning
    /\ rnat' = x.nat
    /\ h' = [Tracked(h, IF created THEN {Handle("dstream", x.r.stream)} ELSE {}, {})
                EXCEPT !.delivered = @ \o x.gave,
                      !.decoded = @ \o x.out,
                      !.consumed = @ \o SubSeq(x.r.buffer,
                                               (IF InputExhausted(r) THEN 0 ELSE r.inPos) + 1,
                                               x.r.inPos),
                      !.rcur = IF x.cur = NoCursor THEN @ ELSE x.cur,
                      !.rio = IF x.io # "none" /\ SourceFailed(x.io) THEN x.io ELSE "nil",
                      !.rfaults = @ + (IF x.fault THEN 1 ELSE 0),
                      !.rdone = (~created /\ @) \/ x.hint0,
                      !.rzero = x.zero,
                      !.reof = @ \/ (x.done /\ x.err = "EOF"),
                      !.rstall = IF x.still THEN @ + 1 ELSE 0]

\* A faulty test that forgets that the stream has ended: the properties of
\* Read below must tell it from the real one.
StreamEndedNever(r0) == FALSE

\* Line 34: the stream was marked as ended by an earlier step.
StreamEnded(r0) == r0.streamEnded

\* Read(p) with decompressed bytes staged (lines 27-31).
ReadLeftover(cap) ==
    /\ WriterDone /\ rpc = "idle"
    /\ HasLeftover(r)
    /\ r' = Serve(r, cap)
    /\ rret' = ReaderReturn("read", cap, copy(cap, r.end - r.pos), "nil")
    /\ rnat' = {}
    /\ h' = [h EXCEPT !.delivered = @ \o Served(r, cap), !.rzero = FALSE, !.rio = "nil"]
    /\ UNCHANGED <<ds, src, rpc, rcap>>
    /\ UNCHANGED <<wvars, svars>>

\* Read(p) with the stream marked as ended (lines 34-36).
ReadEnded(cap) ==
    /\ WriterDone /\ rpc = "idle"
    /\ ~HasLeftover(r)
    /\ StreamEnded(r)
    /\ rret' = ReaderReturn("read", cap, 0, "EOF")
    /\ rnat' = {}
    /\ h' = [h EXCEPT !.rzero = FALSE, !.rio = "nil", !.reof = TRUE]
    /\ UNCHANGED <<r, ds, src, rpc, rcap>>
    /\ UNCHANGED <<wvars, svars>>

\* Read(p), createDStream returns nil (lines 47-51).
ReadCreateFails(cap) ==
    /\ WriterDone /\ rpc = "idle"
    /\ ~HasLeftover(r)
    /\ ~StreamEnded(r)
    /\ r.stream = Nil
    /\ h.rfaults < MaxFaults
    /\ r' = ResetStaging(r)
    /\ rret' = ReaderReturn("read", cap, 0, "create")
    /\ rnat' = {"createDStream"}
    /\ h' = [h EXCEPT !.rfaults = @ + 1, !.rzero = FALSE, !.rio = "nil"]
    /\ UNCHANGED <<ds, src, rpc, rcap>>
    /\ UNCHANGED <<wvars, svars>>

\* Read(p) up to the end of the first iteration of its loop (lines 25-132).
Read(cap) ==
    /\ WriterDone /\ rpc = "idle"
    /\ ~HasLeftover(r)
    /\ ~StreamEnded(r)
    /\ LET created == r.stream = Nil
           r0 == [ResetStaging(r) EXCEPT !.stream = 1]
           d0 == IF created THEN NewDStream ELSE ds
       IN  \E x \in ReadIter(r0, d0, cap, Drop(sink, src),
                             IF created THEN {"createDStream"} ELSE {}) :
              /\ x.fault => h.rfaults < MaxFaults
              /\ ReaderTakes(x, cap, created)
    /\ UNCHANGED <<wvars, svars>>

\* A further iteration of the loop of Read.
ReadNext ==
    /\ rpc = "read"
    /\ \E x \in ReadIter(r, ds, rcap, Drop(sink, src), rnat) :
          /\ x.fault => h.rfaults < MaxFaults
          /\ x.still => h.rstall < MaxStall
          /\ ReaderTakes(x, rcap, FALSE)
    /\ UNCHANGED <<wvars, svars>>

\* The handles the native calls `nat` of Reader.Close free, the Reader
\* holding r.stream = stream and r.ctx = ctx.
ReaderFrees(nat, stream, ctx) ==
    (IF "freeDStream" \in nat THEN {Handle("dstream", stream)} ELSE {})
    \cup (IF "freeDCtx" \in nat THEN {Handle("dctx", ctx)} ELSE {})

\* Reader.Close (lines 153-163).
ReaderClose ==
    /\ WriterDone /\ rpc = "idle"
    /\ r' = [r EXCEPT !.stream = Nil, !.ctx = Nil]
    /\ ds' = NewDStream
    /\ rret' = ReaderReturn("close", 0, 0, "nil")
    /\ rnat' = (IF r.stream # Nil THEN {"freeDStream"} ELSE {})
               \cup (IF r.ctx # Nil THEN {"freeDCtx"} ELSE {})
    /\ h' = [Tracked(h, {}, ReaderFrees(rnat', r.stream, r.ctx))
                EXCEPT !.rclosed = TRUE, !.rzero = FALSE, !.rio = "nil"]
    /\ UNCHANGED <<src, rpc, rcap>>
    /\ UNCHANGED <<wvars, svars>>

\* NewReader (src/zstd.go, lines 94-101): createDCtx is called at once (it
\* returns context `ctx`); no session and no readBuffer yet.
NewReader(ctx) ==
    [stream |-> Nil, ctx |-> ctx, buffer |-> <<>>, inSize |-> 0, inPos |-> 0,
     readBuffer |-> <<>>, outPos |-> 0, pos |-> 0, end |-> 0, streamEnded |-> FALSE]

\* The native calls NewReader makes (src/zstd.go, line 98).
NewReaderCalls == {"createDCtx"}

\* The values of len(p) a caller passes to Read.
ReadSizes == 1..MaxP

InitReader ==
    /\ r = NewReader(1)
    /\ ds = NewDStream
    /\ src = 0
    /\ rpc = "idle"
    /\ rcap = 0
    /\ rret = ReaderRunning
    /\ rnat = NewReaderCalls

---------------------------------------------------------------------------
(* One-shot Compress and Decompress (src/zstd.go, lines 35-90) *)

\* Runs in the data of a one-shot call.
MaxRuns == 2

\* The data of a one-shot call is a sequence of runs: len equal bytes val.
RunLens == {1, 3, 1500}
RunVals == {1, 2}
Run == [val : RunVals, len : RunLens]
Inputs == UNION { [1..n -> Run] : n \in 0..MaxRuns }
Levels == {1, 22}
\* The values of maxSize a caller passes to Decompress.
MaxSizes == {0, 2048}

RECURSIVE Size(_)
\* len(b) of data b.
Size(b) == IF b = <<>> THEN 0 ELSE Head(b).len + Size(Tail(b))

\* The engine's frame for data b: a frame header and one block per run, a
\* block header and the bytes of the run, or one byte for a run of equal
\* bytes (an RLE block).
FrameHeaderSize == 6
BlockHeaderSize == 3
BlockSize(run) == BlockHeaderSize + (IF run.len > 1 THEN 1 ELSE run.len)
RECURSIVE BlocksSize(_)
BlocksSize(b) == IF b = <<>> THEN 0 ELSE BlockSize(Head(b)) + BlocksSize(Tail(b))
FrameSize(b) == FrameHeaderSize + BlocksSize(b)

\* A []byte holding compressed data: what it decodes to, and its length.
Bytes(content, size) == [content |-> content, size |-> size]
NoBytes == Bytes(<<>>, 0)

\* ZSTD_compressBound(srcSize).
compressBound(srcSize) == srcSize + (srcSize \div 256) + 64

\* ZSTD_compress(dst, dstCapacity, src, srcSize, level): the compressed size
\* or a fault code, and the bytes left in dst.
compress(dstCapacity, b, level) ==
    IF FrameSize(b) > dstCapacity
    THEN [result |-> ErrorBase, dst |-> NoBytes]
    ELSE [result |-> FrameSize(b), dst |-> Bytes(b, FrameSize(b))]

\* ZSTD_decompress(dst, dstCapacity, src, compressedSize): the decompressed
\* size or a fault code (the destination is too small), and the bytes left
\* in dst.
decompress(dstCapacity, c) ==
    IF Size(c.content) > dstCapacity
    THEN [result |-> ErrorBase, dst |-> <<>>]
    ELSE [result |-> Size(c.content), dst |-> c.content]

\* What a one-shot call returns: (data, err).
Returned(data, err) == [data |-> data, err |-> err]

\* Zstd.Compress(src, level) (lines 35-56).
Compress(b, level) ==
    IF Size(b) = 0
    THEN Returned(NoBytes, "nil")
    ELSE LET dstCapacity == compressBound(Size(b))
             o == compress(dstCapacity, b, level)
         IN  IF isError(o.result) # 0
             THEN Returned(NoBytes, "engine")
             ELSE Returned(o.dst, "nil")

\* Lines 67-74: the destination size Decompress picks for maxSize <= 0.
DefaultRatio == 5
MinDefaultSize == 1024
DefaultMaxSize(srcLen) ==
    IF srcLen * DefaultRatio < MinDefaultSize THEN MinDefaultSize ELSE srcLen * DefaultRatio

\* Zstd.Decompress(src, maxSize) (lines 61-90).
Decompress(c, maxSize) ==
    IF c.size = 0
    THEN Returned(<<>>, "nil")
    ELSE LET size == IF maxSize <= 0 THEN DefaultMaxSize(c.size) ELSE maxSize
             o == decompress(size, c)
         IN  IF isError(o.result) # 0
             THEN Returned(<<>>, "engine")
             ELSE Returned(o.dst, "nil")

OneShotIdle ==
    [pc |-> "idle", src |-> <<>>, level |-> 0, comp |-> Returned(NoBytes, "nil"),
     maxSize |-> 0, out |-> Returned(<<>>, "nil"), dict |-> "nil", nat |-> <<>>]

\* The caller compresses data b at a level.
CallCompress(b, level) ==
    /\ os' = [OneShotIdle EXCEPT !.pc = "compressed", !.src = b, !.level = level,
                                 !.comp = Compress(b, level)]
    /\ UNCHANGED <<wvars, rvars, h, z, g>>

\* The caller decompresses what Compress returned.
CallDecompress(maxSize) ==
    /\ os.pc = "compressed"
    /\ os.comp.err = "nil"
    /\ os' = [os EXCEPT !.pc = "decompressed", !.maxSize = maxSize,
                        !.out = Decompress(os.comp.data, maxSize)]
    /\ UNCHANGED <<wvars, rvars, h, z, g>>

---------------------------------------------------------------------------
(* The shared Zstd value (src/dictionary.go, lines 17-55, 189-229, 358-371;
   src/zstd.go, lines 116-126) *)

\* Goroutines sharing one Zstd value.
MaxGoroutines == 2
Goroutines == 1..MaxGoroutines

\* The fields registerDictionaryFunctions sets, in its order (lines 25-31).
DictFuncs ==
    <<"createCDict", "freeCDict", "createDDict", "freeDDict",
      "compressUsingCDict", "decompressUsingDDict", "getDictID">>

\* loadLibrary (lines 246-285): the library is loaded, the dictionary
\* functions are nil.  `unloads` counts the calls of Dlclose, `ret` is what
\* the last Zstd.Close returned.
Loaded == 1
NewZstd == [handle |-> Loaded, funcs |-> {}, unloads |-> 0, ret |-> "none"]

\* A goroutine: where it stands, the next field it registers, whether it
\* holds a Dictionary, what its last call returned.
NewGoroutine == [pc |-> "idle", next |-> 1, dict |-> FALSE, ret |-> "none"]

\* The field of z goroutine i is about to write, and about to read.
WritesField(i) ==
    IF g[i].pc = "register" THEN {DictFuncs[g[i].next]} ELSE {}
ReadsField(i) ==
    CASE g[i].pc = "check" -> {"createCDict"}
      [] g[i].pc = "getDictID" -> {"getDictID"}
      [] g[i].pc = "createCDict" -> {"createCDict"}
      [] g[i].pc = "compressUsingCDict" -> {"compressUsingCDict", "freeCDict"}
      [] OTHER -> {}

\* LoadDictionary with empty data (lines 38-40).
LoadDictionaryEmpty(i) ==
    /\ g[i].pc = "idle"
    /\ g' = [g EXCEPT ![i].ret = "empty dictionary data"]
    /\ UNCHANGED <<wvars, rvars, h, os, z>>

\* LoadDictionary with data: the call of registerDictionaryFunctions (line 43).
LoadDictionary(i) ==
    /\ g[i].pc = "idle"
    /\ g' = [g EXCEPT ![i].pc = "check", ![i].ret = "none"]
    /\ UNCHANGED <<wvars, rvars, h, os, z>>

\* Lines 20-22: registered already when createCDict is set.
CheckRegistered(i) ==
    /\ g[i].pc = "check"
    /\ g' = [g EXCEPT ![i].pc = IF "createCDict" \in z.funcs THEN "getDictID" ELSE "register",
                      ![i].next = 1]
    /\ UNCHANGED <<wvars, rvars, h, os, z>>

\* One of lines 25-31: RegisterLibFunc sets the next field.
Register(i) ==
    /\ g[i].pc = "register"
    /\ z' = [z EXCEPT !.funcs = @ \cup {DictFuncs[g[i].next]}]
    /\ g' = [g EXCEPT ![i].pc = IF g[i].next = Len(DictFuncs) THEN "getDictID" ELSE @,
                      ![i].next = IF g[i].next = Len(DictFuncs) THEN 1 ELSE @ + 1]
    /\ UNCHANGED <<wvars, rvars, h, os>>

\* Lines 48-54: z.getDictID is called; calling a nil function panics.
GetDictID(i) ==
    /\ g[i].pc = "getDictID"
    /\ g' = IF "getDictID" \in z.funcs
            THEN [g EXCEPT ![i].pc = "idle", ![i].dict = TRUE, ![i].ret = "nil"]
            ELSE [g EXCEPT ![i].pc = "panic", ![i].ret = "nil function call"]
    /\ UNCHANGED <<wvars, rvars, h, os, z>>

\* CompressUsingDict with data and a Dictionary up to the call of
\* z.createCDict (lines 63-78).
CompressUsingDict(i) ==
    /\ g[i].pc = "idle"
    /\ g[i].dict
    /\ g' = [g EXCEPT ![i].pc = "createCDict", ![i].ret = "none"]
    /\ UNCHANGED <<wvars, rvars, h, os, z>>

\* Lines 80-89: z.createCDict is called.
CreateCDict(i) ==
    /\ g[i].pc = "createCDict"
    /\ g' = IF "createCDict" \in z.funcs
            THEN [g EXCEPT ![i].pc = "compressUsingCDict"]
            ELSE [g EXCEPT ![i].pc = "panic", ![i].ret = "nil function call"]
    /\ UNCHANGED <<wvars, rvars, h, os, z>>

\* Lines 91-109: z.compressUsingCDict is called, the deferred frees run.
CompressUsingCDict(i) ==
    /\ g[i].pc = "compressUsingCDict"
    /\ g' = IF {"compressUsingCDict", "freeCDict"} \subseteq z.funcs
            THEN [g EXCEPT ![i].pc = "idle", ![i].ret = "nil"]
            ELSE [g EXCEPT ![i].pc = "panic", ![i].ret = "nil function call"]
    /\ UNCHANGED <<wvars, rvars, h, os, z>>

\* closeLibrary (lines 359-371): Dlclose unloads the library when the handle
\* is not 0, and its error is returned.
closeLibrary(z0, err) ==
    IF z0.handle # 0 THEN [z0 EXCEPT !.unloads = @ + 1, !.ret = err] ELSE [z0 EXCEPT !.ret = "nil"]

\* Zstd.Close (src/zstd.go, lines 118-126), called directly or as the second
\* call of the Close of a package-level wrapper (src/unnamed/part_002,
\* lines 101-109 and 118-126), which has called the adapter's Close before.
\* Nothing keeps it from running while an adapter of this Zstd is in use.
ZstdClose ==
    /\ wpc # "crashed"
    /\ IF z.handle = 0
       THEN z' = [z EXCEPT !.ret = "nil"]
       ELSE \E err \in {"nil", "dlclose"} : z' = [closeLibrary(z, err) EXCEPT !.handle = 0]
    /\ UNCHANGED <<wvars, rvars, h, os, g>>

\* An adapter calls a native function (part_004) after Dlclose: the call
\* goes through a function pointer into a library that may be unmapped.
\* Either the code is still there and the call behaves as before (the
\* actions of the adapters), or the process dies here.
NativeCallUnloaded ==
    /\ z.handle = 0
    /\ wpc # "crashed"
    /\ wpc' = "crashed" /\ rpc' = "crashed"
    /\ UNCHANGED <<w, cs, sink, wp, wret, wnat, r, ds, src, rcap, rret, rnat, h, svars>>

InitShared ==
    /\ z = NewZstd
    /\ g = [i \in Goroutines |-> NewGoroutine]

---------------------------------------------------------------------------
(* The dictionary one-shot calls (src/dictionary.go, lines 63-167) *)

\* The *Dictionary a caller passes: nil, one without data (the zero value),
\* one with data (made by LoadDictionary of this or of another Zstd value).
Dicts == {"nil", "empty", "data"}

\* The data of a dictionary call: nothing, or one run.
DictInputs == {<<>>} \cup {<<run>> : run \in Run}

\* What goes wrong in the engine during a call: nothing, the context or the
\* dictionary cannot be allocated, the engine reports an error.
DictFaults == {"none", "ctx", "dict", "engine"}

\* The pointers the engine returns for the context and the dictionary of a
\* dictionary call (the adapters' contexts have pointer 1).
DictCtxPtr == 2
DictPtr == 1

\* ZSTD_createCCtx / ZSTD_createDCtx and ZSTD_createCDict / ZSTD_createDDict:
\* a pointer, or nil when the allocation fails.
createCtx(fault) == IF fault = "ctx" THEN Nil ELSE DictCtxPtr
createDict(fault) == IF fault = "dict" THEN Nil ELSE DictPtr

\* ZSTD_compress_usingCDict(cctx, dst, dstCapacity, src, srcSize, cdict).
compressUsingCDict(dstCapacity, b, fault) ==
    IF fault = "engine" \/ FrameSize(b) > dstCapacity
    THEN [result |-> ErrorBase, dst |-> NoBytes]
    ELSE [result |-> FrameSize(b), dst |-> Bytes(b, FrameSize(b))]

\* ZSTD_decompress_usingDDict(dctx, dst, dstCapacity, src, srcSize, ddict).
decompressUsingDDict(dstCapacity, c, fault) ==
    IF fault = "engine" \/ Size(c.content) > dstCapacity
    THEN [result |-> ErrorBase, dst |-> <<>>]
    ELSE [result |-> Size(c.content), dst |-> c.content]

\* Lines 68 and 118: dict == nil || len(dict.dictData) == 0.
NoDictionary(dict) == dict \in {"nil", "empty"}

\* A deferred call of the free function `free` with the handle.
Deferred(free, handle) == [free |-> free, handle |-> handle]

\* A faulty defer statement that registers nothing: the properties of the
\* dictionary calls below must tell it from the real one.
DeferDropped(defers, d) == defers

\* Lines 77, 88, 136, 144: a defer statement; the deferred calls run last
\* in, first out.
Defer(defers, d) == <<d>> \o defers

\* A dictionary call returns `ret` (or panics) having made the native calls
\* `nat` and created the handles `made`: the deferred calls run, in their
\* order, and free their handles.
Returning(ret, nat, made, defers) ==
    [ret |-> ret,
     nat |-> nat \o [i \in 1..Len(defers) |-> defers[i].free],
     made |-> made,
     freed |-> [i \in 1..Len(defers) |-> defers[i].handle]]

\* Calling a function field of z that was never registered panics.
Panicked(data) == Returned(data, "nil function call")

\* Zstd.CompressUsingDict(src, dict, level) (lines 63-110), the Zstd value
\* having the function fields `funcs` registered.
CompressWithDict(b, dict, level, fault, funcs) ==
    IF Size(b) = 0 THEN Returning(Returned(NoBytes, "nil"), <<>>, {}, <<>>)
    ELSE IF NoDictionary(dict) THEN Returning(Compress(b, level), <<"compress">>, {}, <<>>)
    ELSE
    LET cctx == createCtx(fault)
        d1 == Defer(<<>>, Deferred("freeCCtx", Handle("cctx", cctx)))
        cdict == createDict(fault)
        d2 == Defer(d1, Deferred("freeCDict", Handle("cdict", cdict)))
        o == compressUsingCDict(compressBound(Size(b)), b, fault)
    IN  IF cctx = Nil
        THEN Returning(Returned(NoBytes, "create context"), <<"createCCtx">>, {}, <<>>)
        ELSE IF "createCDict" \notin funcs
        THEN Returning(Panicked(NoBytes), <<"createCCtx">>, {Handle("cctx", cctx)}, d1)
        ELSE IF cdict = Nil
        THEN Returning(Returned(NoBytes, "create dictionary"), <<"createCCtx", "createCDict">>,
                       {Handle("cctx", cctx)}, d1)
        ELSE IF isError(o.result) # 0
        THEN Returning(Returned(NoBytes, "engine"),
                       <<"createCCtx", "createCDict", "compressUsingCDict">>,
                       {Handle("cctx", cctx), Handle("cdict", cdict)}, d2)
        ELSE Returning(Returned(o.dst, "nil"),
                       <<"createCCtx", "createCDict", "compressUsingCDict">>,
                       {Handle("cctx", cctx), Handle("cdict", cdict)}, d2)

\* Zstd.DecompressUsingDict(src, dict, maxSize) (lines 113-167).
DecompressWithDict(c, dict, maxSize, fault, funcs) ==
    IF c.size = 0 THEN Returning(Returned(<<>>, "nil"), <<>>, {}, <<>>)
    ELSE IF NoDictionary(dict) THEN Returning(Decompress(c, maxSize), <<"decompress">>, {}, <<>>)
    ELSE
    LET size == IF maxSize <= 0 THEN DefaultMaxSize(c.size) ELSE maxSize
        dctx == createCtx(fault)
        d1 == Defer(<<>>, Deferred("freeDCtx", Handle("dctx", dctx)))
        ddict == createDict(fault)
        d2 == Defer(d1, Deferred("freeDDict", Handle("ddict", ddict)))
        o == decompressUsingDDict(size, c, fault)
    IN  IF dctx = Nil
        THEN Returning(Returned(<<>>, "create context"), <<"createDCtx">>, {}, <<>>)
        ELSE IF "createDDict" \notin funcs
        THEN Returning(Panicked(<<>>), <<"createDCtx">>, {Handle("dctx", dctx)}, d1)
        ELSE IF ddict = Nil
        THEN Returning(Returned(<<>>, "create dictionary"), <<"createDCtx", "createDDict">>,
                       {Handle("dctx", dctx)}, d1)
        ELSE IF isError(o.result) # 0
        THEN Returning(Returned(<<>>, "engine"),
                       <<"createDCtx", "createDDict", "decompressUsingDDict">>,
                       {Handle("dctx", dctx), Handle("ddict", ddict)}, d2)
        ELSE Returning(Returned(o.dst, "nil"),
                       <<"createDCtx", "createDDict", "decompressUsingDDict">>,
                       {Handle("dctx", dctx), Handle("ddict", ddict)}, d2)

RECURSIVE Freeing(_, _)
\* The history after the handles of `freed` were passed to their free
\* functions one after the other.
Freeing(hist, freed) ==
    IF freed = <<>> THEN hist ELSE Freeing(Tracked(hist, {}, {Head(freed)}), Tail(freed))

\* LoadDictionary(data) with data, run by one goroutine (lines 37-55): the
\* dictionary functions are registered.
CallLoadDictionary ==
    /\ z.handle # 0
    /\ z' = [z EXCEPT !.funcs = {DictFuncs[i] : i \in 1..Len(DictFuncs)}]
    /\ UNCHANGED <<wvars, rvars, h, os, g>>

\* The caller compresses data b with a dictionary.
CallCompressUsingDict(b, dict, level, fault) ==
    LET x == CompressWithDict(b, dict, level, fault, z.funcs)
    IN  /\ os' = [OneShotIdle EXCEPT !.pc = "compressed", !.src = b, !.level = level,
                                     !.dict = dict, !.comp = x.ret, !.nat = x.nat]
        /\ h' = Freeing(Tracked(h, x.made, {}), x.freed)
        /\ UNCHANGED <<wvars, rvars, z, g>>

\* The caller decompresses what CompressUsingDict returned, with a
\* dictionary.
CallDecompressUsingDict(dict, maxSize, fault) ==
    /\ os.pc = "compressed"
    /\ os.comp.err = "nil"
    /\ LET x == DecompressWithDict(os.comp.data, dict, maxSize, fault, z.funcs)
       IN  /\ os' = [os EXCEPT !.pc = "decompressed", !.maxSize = maxSize, !.dict = dict,
                               !.out = x.ret, !.nat = x.nat]
           /\ h' = Freeing(Tracked(h, x.made, {}), x.freed)
    /\ UNCHANGED <<wvars, rvars, z, g>>

---------------------------------------------------------------------------
(* The specifications *)

\* The handles the constructors' native calls have created.
Constructed ==
    (IF "createCCtx" \in NewWriterCalls THEN {Handle("cctx", NewWriter(1, WriterLevel).ctx)} ELSE {})
    \cup (IF "createDCtx" \in NewReaderCalls THEN {Handle("dctx", NewReader(1).ctx)} ELSE {})

Init ==
    /\ InitWriter /\ InitReader
    /\ h = Tracked(InitHist, Constructed, {})
    /\ os = OneShotIdle
    /\ InitShared

Next ==
    \/ WriteEmpty
    \/ \E p \in Slices : WriteCreateFails(p)
    \/ \E p \in Slices : Write(p)
    \/ WriteNext
    \/ FlushNil
    \/ Flush
    \/ FlushNext
    \/ CloseNil
    \/ Close
    \/ CloseNext
    \/ \E cap \in ReadSizes : ReadLeftover(cap)
    \/ \E cap \in ReadSizes : ReadEnded(cap)
    \/ \E cap \in ReadSizes : ReadCreateFails(cap)
    \/ \E cap \in ReadSizes : Read(cap)
    \/ ReadNext
    \/ ReaderClose

\* The stream adapters.
Spec == Init /\ [][Next]_vars

NextOneShot ==
    \/ \E b \in Inputs, level \in Levels : CallCompress(b, level)
    \/ \E maxSize \in MaxSizes : CallDecompress(maxSize)

\* The one-shot calls.
SpecOneShot == Init /\ [][NextOneShot]_vars

NextShared ==
    \/ \E i \in Goroutines : LoadDictionaryEmpty(i)
    \/ \E i \in Goroutines : LoadDictionary(i)
    \/ \E i \in Goroutines : CheckRegistered(i)
    \/ \E i \in Goroutines : Register(i)
    \/ \E i \in Goroutines : GetDictID(i)
    \/ \E i \in Goroutines : CompressUsingDict(i)
    \/ \E i \in Goroutines : CreateCDict(i)
    \/ \E i \in Goroutines : CompressUsingCDict(i)

\* Goroutines using the dictionary functions of one Zstd value.
SpecShared == Init /\ [][NextShared]_vars

NextLib ==
    \/ Next
    \/ ZstdClose
    \/ NativeCallUnloaded

\* The stream adapters of a Zstd value and its Close.
SpecLib == Init /\ [][NextLib]_vars

NextDict ==
    \/ CallLoadDictionary
    \/ \E b \in DictInputs, dict \in Dicts, level \in Levels, fault \in DictFaults :
          CallCompressUsingDict(b, dict, level, fault)
    \/ \E dict \in Dicts, maxSize \in MaxSizes, fault \in DictFaults :
          CallDecompressUsingDict(dict, maxSize, fault)

\* The dictionary one-shot calls.
SpecDict == Init /\ [][NextDict]_vars

---------------------------------------------------------------------------
(* Properties *)

\* A run of the round-trip shape so far: Writes, Flushes and one Close of a
\* single session with no call failing, then Reads with no fault injected
\* and no Close of the Reader in between.
CleanRun == h.faults = 0 /\ h.rfaults = 0 /\ h.wsess <= 1 /\ ~h.rclosed

\* s is the first n bytes of t, for some n.
IsPrefix(s, t) == Len(s) <= Len(t) /\ s = Take(t, Len(s))

\* The reference decoding of a whole byte string by a fresh session.
StreamDecoded(bytes) == Feed(NewDStream, bytes, Len(bytes))

\* bytes is exactly one frame that decodes to b.
OneFrameOf(bytes, b) ==
    LET f == StreamDecoded(bytes)
    IN  ~f.bad /\ f.used = Len(bytes) /\ f.d.stage = "done" /\ f.d.pend = b

\* C1: streaming round trip.  Whatever bytes b were written (none included),
\* after Close the Reader delivers the bytes of b in order and nothing else,
\* no Read fails or finds the engine unable to go on at the end of the
\* source, and when a Read reports end-of-stream all of b has been
\* delivered.
StreamingRoundTrip ==
    (WriterDone /\ CleanRun) =>
        /\ h.rstall = 0
        /\ rret.err \in {"nil", "EOF"}
        /\ IsPrefix(h.delivered, h.written)
        /\ (rret.op = "read" /\ rret.err = "EOF") => h.delivered = h.written

\* C2: one-shot round trip.  Decompress(Compress(b, level), 0) returns b and
\* no error, for every b and level.
OneShotRoundTrip ==
    (os.pc = "decompressed" /\ os.maxSize = 0) =>
        (os.out.err = "nil" /\ os.out.data = os.src)

\* C3: chunked input invariance.  However the bytes b were cut into the
\* slices passed to Write (no slice at all when b is empty), after Close the
\* sink holds one frame that stream-decompresses to exactly b.
ChunkedInputInvariance ==
    (wpc = "idle" /\ wret.op = "close" /\ h.faults = 0 /\ h.wsess <= 1) =>
        OneFrameOf(sink, h.written)

\* A step of Flush on an open session that returns nil.
FlushReturnsNil ==
    /\ wvars' # wvars
    /\ w.stream # Nil
    /\ wret'.op = "flush" /\ wret'.err = "nil"

\* A run in which a Flush returned nil after some bytes were written.
Flushed == h.flushed >= 1

\* C4: Flush does not end the frame.  A Flush that returns nil leaves the
\* Writer with the same session, not ended by the engine; and in a run with
\* such a Flush the bytes written before and after it are, after Close, one
\* frame in the sink, which the Reader decompresses to all of them in order.
FlushKeepsFrameOpen ==
    /\ [][FlushReturnsNil => (w'.stream = w.stream /\ cs'.stage # "ended")]_vars
    /\ [](((wpc = "idle" /\ wret.op = "close" /\ h.faults = 0 /\ h.wsess <= 1 /\ Flushed)
             => OneFrameOf(sink, h.written))
          /\ ((WriterDone /\ CleanRun /\ Flushed)
             => /\ IsPrefix(h.delivered, h.written)
                /\ rret.err \in {"nil", "EOF"}
                /\ (rret.op = "read" /\ rret.err = "EOF") => h.delivered = h.written))

\* C4 happens: bytes written, a Flush that returned nil, more bytes written,
\* Close, and the Reader has reached end-of-stream with all of them.
FlushedRunReadBack ==
    /\ WriterDone /\ CleanRun /\ Flushed
    /\ Len(h.written) > h.flushed
    /\ rret.op = "read" /\ rret.err = "EOF"
    /\ h.delivered = h.written

\* A step of Write(p), len(p) > 0, after which the call goes on or has
\* returned nil.
WriteStepOk ==
    /\ wvars' # wvars
    /\ \/ wpc' = "write"
       \/ wret'.op = "write" /\ wret'.err = "nil" /\ wret'.len > 0

\* C5: a Write(p) of a non-empty p that returns nil returns len(p), the input
\* cursor then stands at len(p), and every step of the call has passed all
\* the bytes the engine left in the output cursor on to the sink.
WriteConsumesAll ==
    /\ []((wpc = "idle" /\ wret.op = "write" /\ wret.err = "nil" /\ wret.len > 0)
             => (wret.n = wret.len /\ w.inPos = wret.len /\ w.inSize = wret.len))
    /\ [][WriteStepOk => sink' = sink \o Take(w'.buffer, w'.outPos)]_vars

\* C5 happens: a Write of several bytes took more than one step of the
\* engine, returned nil, and compressed bytes have reached the sink.
WriteReturnedAll ==
    /\ wpc = "idle" /\ wret.op = "write" /\ wret.err = "nil"
    /\ wret.len = MaxInput
    /\ sink # <<>>
    /\ h.written = [i \in 1..MaxInput |-> i]

\* C6: partial-progress reporting.  When the sink fails in a Write, the count
\* returned is the input the engine had taken before the step whose output
\* the sink rejected, and it is not len(p).
PartialProgressCount ==
    [][(wvars' # wvars /\ wret'.op = "write" /\ wret'.err = "sink")
          => /\ wret'.n = (IF wpc = "write" THEN w.inPos ELSE 0)
             /\ wret'.n # wret'.len]_vars

NoPrematureEOF ==
    (rpc = "idle" /\ rret.op = "read" /\ rret.err = "EOF") =>
        (h.rdone /\ r.pos >= r.end)

\* C9: progress-stall detection.  With the source at end-of-input, a Read
\* returns before the engine has, MaxStall times in a row, taken no input,
\* produced no output and returned a non-terminal hint.
StallDetected == h.rstall < MaxStall

\* C10: idempotent close.  Once a Close has returned, every step of a later
\* Close or Flush of the Writer returns nil, makes no native call and writes
\* nothing to the sink; and a later Close of the Reader returns nil and makes
\* no native call.
IdempotentClose ==
    [][/\ (h.wclosed /\ wvars' # wvars
             /\ (wpc' \in {"close", "flush"} \/ wret'.op \in {"close", "flush"}))
          => (wpc' = "idle" /\ wret'.err = "nil" /\ wnat' = {} /\ sink' = sink)
       /\ (h.rclosed /\ rvars' # rvars /\ rret'.op = "close")
          => (rret'.err = "nil" /\ rnat' = {})]_vars

\* C11: Close on a Writer that was never written to returns nil, makes no
\* native call (no create, no step, no free) and writes nothing to the sink.
CloseNeverWritten ==
    (wpc = "idle" /\ wret.op = "close" /\ h.wsess = 0 /\ h.faults = 0) =>
        (wret.err = "nil" /\ wnat = {} /\ sink = <<>>)

\* C12: once Close has returned on a Writer, every step of a later Write or
\* Flush returns a stream-closed error at once, with no native call (no
\* session created, no engine step); and likewise every later Read once
\* Close has returned on a Reader.
ClosedIsRefused ==
    [][/\ (h.wclosed /\ wvars' # wvars
             /\ (wpc' \in {"write", "flush"} \/ wret'.op \in {"write", "flush"}))
          => (wpc' = "idle" /\ wret'.err = "closed" /\ wnat' = {})
       /\ (h.rclosed /\ rvars' # rvars /\ (rpc' = "read" \/ rret'.op = "read"))
          => (rpc' = "idle" /\ rret'.err = "closed" /\ rnat' = {})]_vars

\* C13: lazy creation.  A Writer or Reader on which no method has been
\* called yet has made no native call and holds no native handle.
LazyCreation ==
    /\ (wpc = "idle" /\ wret.op = "none")
          => (wnat = {} /\ ~\E hd \in h.live : hd[1] \in {"cctx", "cstream"})
    /\ (rpc = "idle" /\ rret.op = "none")
          => (rnat = {} /\ ~\E hd \in h.live : hd[1] \in {"dctx", "dstream"})


\* C14: no double destruction.  Whatever Write, Flush, Read and Close calls
\* are made, a repeated Close and a Close after a failed Close included, no
\* free function is ever given a handle that is not alive: each handle
\* created is freed at most once.
NoDoubleFree == ~h.badfree

\* A Close of the Writer that found nothing left to free (a Close after a
\* Close), and one after a call of the Writer failed.
ClosedAgain ==
    /\ wpc = "idle" /\ wret.op = "close" /\ wnat = {}
    /\ h.wclosed /\ h.faults > 0
    /\ ~\E hd \in h.live : hd[1] \in {"cctx", "cstream"}


\* C15: a codec fault releases the session.  When a Write, Flush, Close or
\* Read has returned an engine fault, the adapter has freed its native
\* session: it holds none, and none of its sessions is alive.
FaultReleasesSession ==
    /\ (wpc = "idle" /\ wret.err = "engine")
          => (w.stream = Nil /\ ~\E hd \in h.live : hd[1] = "cstream")
    /\ (rpc = "idle" /\ rret.err = "engine")
          => (r.stream = Nil /\ ~\E hd \in h.live : hd[1] = "dstream")


\* C16: Writer.Close releases on every exit path.  In the step in which a
\* Close of a Writer with an open session returns, with nil, an engine fault
\* or a sink error, the session is passed to freeCStream, it was alive and
\* is alive no more, and the Writer holds no session and no live handle
\* afterwards.
CloseReleases ==
    [][(w.stream # Nil /\ wpc' = "idle" /\ wret'.op = "close")
          => /\ "freeCStream" \in wnat'
             /\ Handle("cstream", w.stream) \in h.live
             /\ ~\E hd \in h'.live : hd[1] \in {"cstream", "cctx"}
             /\ ~h'.badfree
             /\ w'.stream = Nil]_vars

\* A Close of an open session has returned a sink error, having freed the
\* session.
CloseFailedAndFreed ==
    /\ wpc = "idle" /\ wret.op = "close" /\ wret.err = "sink"
    /\ "freeCStream" \in wnat
    /\ w.stream = Nil


\* C17: all faults are terminal.  Once a call of an adapter has returned a
\* fault (engine, sink or source, failed creation), every later Write, Flush
\* or Read of that adapter returns at once without success and makes no
\* native call.
FaultsAreTerminal ==
    [][/\ (h.faults > 0 /\ wvars' # wvars
             /\ (wpc' \in {"write", "flush"} \/ wret'.op \in {"write", "flush"}))
          => (wpc' = "idle" /\ wret'.err # "nil" /\ wnat' = {})
       /\ (h.rfaults > 0 /\ rvars' # rvars /\ (rpc' = "read" \/ rret'.op = "read"))
          => (rpc' = "idle" /\ rret'.err # "nil" /\ rnat' = {})]_vars


\* C18: source and sink errors are propagated unchanged and not retried.
\* When the sink's Write has returned an error in a step of Write, Flush or
\* Close, the call has returned that same error in that step; when the
\* source's Read has returned an error other than end-of-input in a step of
\* Read, the Read has returned 0 bytes and that same error in that step.
IOErrorsPropagated ==
    /\ h.wio \notin {"none", "nil"}
          => (wpc = "idle" /\ wret.op \in {"write", "flush", "close"} /\ wret.err = h.wio)
    /\ h.rio # "nil"
          => (/\ rpc = "idle" /\ rret.op = "read"
              /\ rret.n = 0 /\ rret.err = h.rio)

\* A Read has returned the error of the source, after an earlier pull gave
\* it bytes.
SourceErrorReturned ==
    /\ rpc = "idle" /\ rret.op = "read" /\ rret.err = "source" /\ h.rio = "source"
    /\ src > 0


\* C19: the Writer forwards engine output exactly once and in order.  In
\* every step of Write, Flush or Close the sink is called if and only if
\* the engine step left bytes in w.buffer (outBuffer.Pos > 0); what the sink
\* then receives is the first outBuffer.Pos bytes of w.buffer, appended
\* once after all it received before (a failing sink keeps a proper prefix
\* of them).
ForwardsStagedOutput ==
    [][(wvars' # wvars /\ "compressStream2" \in wnat')
          => LET staged == Take(w'.buffer, w'.outPos)
             IN  /\ (h'.wio = "none") <=> (w'.outPos = 0)
                 /\ h'.wio \in {"none", "nil"} => sink' = sink \o staged
                 /\ h'.wio \notin {"none", "nil"}
                       => \E j \in 0..(Len(staged) - 1) : sink' = sink \o Take(staged, j)]_vars

\* An engine step that produced nothing (no sink call) has followed steps
\* whose output is in the sink.
SilentStepAfterOutput ==
    /\ "compressStream2" \in wnat /\ h.wio = "none" /\ w.outPos = 0
    /\ h.faults = 0
    /\ Len(sink) > 1


\* C20: the Reader delivers engine output exactly once and in order across
\* partial reads.  Always 0 <= pos <= end <= len(readBuffer) and the buffer
\* is no longer than its configured size; the bytes returned by all Reads
\* so far, followed by the staged bytes not yet returned, are the engine's
\* outputs of all steps so far in order (so what was returned is a prefix
\* of them); and the staging buffer is reset or overwritten only when
\* pos = end.
DeliversStagedOutput ==
    /\ [](/\ 0 <= r.pos /\ r.pos <= r.end /\ r.end <= Len(r.readBuffer)
          /\ Len(r.readBuffer) <= ReadBufferSize
          /\ h.decoded = h.delivered \o SubSeq(r.readBuffer, r.pos + 1, r.end)
          /\ IsPrefix(h.delivered, h.decoded))
    /\ [][(r'.readBuffer # r.readBuffer \/ h'.decoded # h.decoded) => r.pos = r.end]_vars

\* A Read into a short p has returned part of what an engine step staged,
\* and the next Read has returned the rest of it without an engine step.
RestServedFromStaging ==
    /\ rpc = "idle" /\ rret.op = "read" /\ rret.err = "nil" /\ rret.n > 0
    /\ rnat = {}
    /\ r.pos = r.end /\ r.pos > rret.n
    /\ h.delivered = h.decoded

\* C21: the Writer compresses with the level it was given.  Whenever the
\* Writer holds a session, the session is configured with w.level, so that
\* every compression step runs at that level.
LevelApplied == w.stream # Nil => cs.level = w.level


\* C22: the engine handle is shared read-only.  No goroutine is about to
\* write a field of the shared Zstd value that another goroutine is about
\* to read or to write, and no goroutine's call has failed because of what
\* another goroutine was doing to the value.
SharedReadOnly ==
    /\ \A i, j \in Goroutines :
          i # j => WritesField(i) \cap (ReadsField(j) \cup WritesField(j)) = {}
    /\ \A i \in Goroutines : g[i].pc # "panic"


\* C23: staging capacity is not a correctness parameter.  With staging
\* buffers as small as WriteBufferSize and ReadBufferSize (any capacity of
\* one byte or more), whatever bytes b were written, after Close the sink
\* holds one frame of b, and the Reader over it delivers the bytes of b in
\* order, never finds the engine unable to go on, and reports
\* end-of-stream only when all of b has been delivered.
SmallStagingRoundTrip ==
    (WriterDone /\ CleanRun /\ WriteBufferSize >= 1 /\ ReadBufferSize >= 1) =>
        /\ OneFrameOf(sink, h.written)
        /\ h.rstall = 0
        /\ IsPrefix(h.decoded, h.written)
        /\ IsPrefix(h.delivered, h.decoded)
        /\ (rret.op = "read" /\ rret.err = "EOF") => h.delivered = h.written


\* C24: cursor invariants.  In every state the input cursors of the Writer
\* and the Reader have Pos <= Size and their output cursors have Pos no
\* larger than the staging buffer; and the output cursor handed to a native
\* step had Pos = 0 and Size = the whole staging buffer.
CursorInvariants ==
    /\ 0 <= w.inPos /\ w.inPos <= w.inSize
    /\ 0 <= w.outPos /\ w.outPos <= WriteBufferSize
    /\ 0 <= r.inPos /\ r.inPos <= r.inSize
    /\ 0 <= r.outPos /\ r.outPos <= ReadBufferSize
    /\ h.wcur # NoCursor => (h.wcur.pos = 0 /\ h.wcur.size = WriteBufferSize)
    /\ h.rcur # NoCursor => (h.rcur.pos = 0 /\ h.rcur.size = ReadBufferSize)

\* A native step of the Reader was handed the output cursor when the step
\* before it had left bytes in the staging buffer; the Writer's steps had
\* done so too.
StepAfterStagedOutput ==
    /\ h.rcur # NoCursor /\ h.wcur # NoCursor
    /\ "decompressStream" \in rnat
    /\ r.outPos > 0
    /\ Len(h.decoded) > r.outPos


LeftoversFirst ==
    [][(rpc = "idle" /\ r.pos < r.end /\ rvars' # rvars /\ rret'.op = "read")
          => LET n == Min(rret'.cap, r.end - r.pos)
             IN  /\ rpc' = "idle"
                 /\ rret' = ReaderReturn("read", rret'.cap, n, "nil")
                 /\ h'.delivered = h.delivered \o SubSeq(r.readBuffer, r.pos + 1, r.pos + n)
                 /\ r' = [r EXCEPT !.pos = r.pos + n]
                 /\ src' = src /\ ds' = ds /\ rnat' = {}
                 /\ h'.consumed = h.consumed /\ h'.decoded = h.decoded]_vars

\* A Read into one byte has been served from the staged bytes an earlier
\* Read left.
LeftoverServed ==
    /\ rpc = "idle" /\ rret = ReaderReturn("read", 1, 1, "nil")
    /\ rnat = {}
    /\ r.pos > 1


\* C27: the end of the source switches to flush intent.  In an iteration of
\* Read that pulls when the source has nothing left, either the source gave
\* no bytes and no error and Read returns (0, nil), or the source failed
\* and Read returns that error, or the source reported end-of-input: then
\* Read returns no error for it, but issues an engine step with the empty
\* input cursor (nil, 0, 0), which consumes nothing, and reports
\* end-of-stream only if the engine reported the frame complete.
EndOfInputFlushes ==
    [][(/\ WriterDone /\ wvars' = wvars
        /\ <<rvars, h>>' # <<rvars, h>>
        /\ rret'.op # "close" /\ rret'.err # "create"
        /\ r.pos >= r.end /\ ~r.streamEnded
        /\ r.inPos >= r.inSize /\ src = Len(sink))
          => \/ h'.rzero /\ rret' = ReaderReturn("read", rret'.cap, 0, "nil")
             \/ h'.rio = "source" /\ rret' = ReaderReturn("read", rret'.cap, 0, "source")
             \/ /\ ~h'.rzero /\ h'.rio = "nil"
                /\ "decompressStream" \in rnat' /\ h'.rcur # NoCursor
                /\ r'.buffer = <<>> /\ r'.inSize = 0 /\ r'.inPos = 0
                /\ h'.consumed = h.consumed
                /\ rret'.err \in {"nil", "EOF", "engine"}
                /\ rret'.err = "EOF" => h'.rdone]_vars

\* The source has reported end-of-input with no bytes before the frame was
\* complete, and the Read goes on stepping the engine with the empty input
\* cursor.
SteppingAfterEndOfInput ==
    /\ rpc = "read" /\ "decompressStream" \in rnat
    /\ r.inSize = 0 /\ r.inPos = 0 /\ r.buffer = <<>>
    /\ src = Len(sink)
    /\ h.rstall > 0


\* C28: the termination protocol of Flush and Close.  Every step of a Flush
\* or a Close of an open session gives the engine the empty input cursor
\* and takes no input; unless the engine or the sink fails, the bytes the
\* step produced are appended to the sink, the call returns nil in the step
\* whose hint is 0, and goes on to another step when the hint is not 0,
\* the hint being smaller than that of the step before it in this call (so
\* that the calls end).
DrainProtocol ==
    [][(/\ wvars' # wvars /\ "compressStream2" \in wnat'
        /\ (wpc' \in {"flush", "close"} \/ wret'.op \in {"flush", "close"}))
          => /\ w'.inSize = 0 /\ w'.inPos = 0
             /\ h'.written = h.written
             /\ h'.faults = h.faults
                   => /\ sink' = sink \o Take(w'.buffer, w'.outPos)
                      /\ h'.whint = 0 => (wpc' = "idle" /\ wret'.err = "nil")
                      /\ h'.whint # 0 => (wpc' # "idle" /\ wpc' \in {wpc, wret'.op, "flush", "close"})
                      /\ (wpc \in {"flush", "close"}) => h'.whint < h.whint]_vars

\* A Close is draining: its last step has left the engine with bytes to
\* emit, and earlier steps of it have reached the sink.
CloseDraining ==
    /\ wpc = "close" /\ h.whint > 0
    /\ w.outPos > 0 /\ Len(sink) > 1
    /\ h.faults = 0


\* C29: end-of-stream is sticky.  Once a Read has returned end-of-stream,
\* the Reader stays marked as ended with nothing staged, and every later
\* Read returns (0, EOF) at once: it pulls nothing from the source, calls
\* no native function and leaves the Reader and the engine as they were,
\* whatever the source still holds.
EndOfStreamSticky ==
    [][h.reof => /\ h'.reof
                 /\ rpc' = "idle"
                 /\ src' = src
                 /\ r'.streamEnded /\ ~HasLeftover(r')
                 /\ rret'.op = "read"
                       => /\ rret'.n = 0 /\ rret'.err = "EOF"
                          /\ rnat' = {}
                          /\ r' = r /\ ds' = ds
                          /\ h'.delivered = h.delivered]_vars

\* A Read after the Reader was closed returned end-of-stream again, the
\* source holding a second frame that was never pulled.
EndOfStreamAgain ==
    /\ h.reof /\ h.rclosed
    /\ rret.op = "read" /\ rret.err = "EOF"
    /\ src < Len(sink)
    /\ h.wsess = 2 /\ h.faults = 0


\* C30: no native call after the library is released.  Once Zstd.Close has
\* unloaded the library, no step of a Writer or of a Reader of that Zstd
\* calls a native function (a step of an adapter is one that changes its
\* variables; an iteration of Read makes no native call only when its pull
\* failed), and a further Zstd.Close returns nil and does not unload again.
NoNativeCallAfterUnload ==
    [][z.handle = 0
          => /\ wvars' # wvars => (wpc = "idle" /\ wnat' = {} /\ wpc' = "idle")
             /\ rvars' # rvars => (\/ rpc = "idle" /\ rnat' = {} /\ rpc' = "idle"
                                   \/ rpc = "read" /\ h'.rio # "nil" /\ rpc' = "idle")
             /\ z' # z => (z'.unloads = z.unloads /\ z'.ret = "nil" /\ z'.handle = 0)]_vars

\* The second half of C30 alone: Zstd.Close of a released Zstd returns nil
\* and the library is unloaded at most once.
UnloadedOnce ==
    /\ [](z.unloads <= 1 /\ (z.handle = 0) = (z.unloads = 1))
    /\ [][z.handle = 0 /\ z' # z => (z'.unloads = z.unloads /\ z'.ret = "nil")]_vars


\* The number of calls of the native function `name` among the calls nat.
Calls(nat, name) == Cardinality({i \in DOMAIN nat : nat[i] = name})

\* What the last dictionary call returned, and whether its src was empty.
DictCallReturned == IF os.pc = "compressed" THEN os.comp ELSE os.out
DictCallSrcEmpty == IF os.pc = "compressed" THEN Size(os.src) = 0 ELSE os.comp.data.size = 0

\* C31: the dictionary one-shot calls release what they create.  When
\* CompressUsingDict or DecompressUsingDict has returned (or panicked), no
\* handle it created is alive and no handle was freed twice or without
\* having been created: the context is freed once exactly when its creation
\* succeeded, the dictionary is freed once exactly when its creation
\* succeeded, whatever the call returns; and with an empty src or a nil or
\* empty dictionary no context and no dictionary is created.
DictCallsRelease ==
    os.pc \in {"compressed", "decompressed"}
       => LET created(kind) == IF os.pc = "compressed"
                               THEN Calls(os.nat, IF kind = "ctx" THEN "createCCtx" ELSE "createCDict")
                               ELSE Calls(os.nat, IF kind = "ctx" THEN "createDCtx" ELSE "createDDict")
              freed(kind) == IF os.pc = "compressed"
                             THEN Calls(os.nat, IF kind = "ctx" THEN "freeCCtx" ELSE "freeCDict")
                             ELSE Calls(os.nat, IF kind = "ctx" THEN "freeDCtx" ELSE "freeDDict")
              err == DictCallReturned.err
          IN  /\ h.live = Constructed
              /\ ~h.badfree
              /\ created("ctx") <= 1 /\ created("dict") <= 1
              /\ freed("ctx") = (IF created("ctx") = 1 /\ err # "create context" THEN 1 ELSE 0)
              /\ freed("dict") = (IF created("dict") = 1 /\ err # "create dictionary" THEN 1 ELSE 0)
              /\ (DictCallSrcEmpty \/ NoDictionary(os.dict))
                    => (created("ctx") = 0 /\ created("dict") = 0
                        /\ freed("ctx") = 0 /\ freed("dict") = 0)

\* DecompressUsingDict failed in the engine, having created a context and a
\* dictionary: both were freed, the dictionary first.
DictDecompressFailedAndFreed ==
    /\ os.pc = "decompressed"
    /\ os.out.err = "engine"
    /\ os.nat = <<"createDCtx", "createDDict", "decompressUsingDDict", "freeDDict", "freeDCtx">>
    /\ h.live = Constructed


\* C32: the count of Write.  A Write(p) returns n with 0 <= n <= len(p), and
\* n < len(p) only together with an error.  A Write of an empty slice
\* returns (0, nil), makes no native call, creates no session, writes
\* nothing to the sink and leaves the Writer and the engine as they were.
WriteCountBounds ==
    /\ []((wpc = "idle" /\ wret.op = "write")
             => /\ 0 <= wret.n /\ wret.n <= wret.len
                /\ wret.n < wret.len => wret.err # "nil")
    /\ [][((wret' # wret \/ wnat' # wnat) /\ wret'.op = "write" /\ wret'.len = 0)
             => /\ wret'.n = 0 /\ wret'.err = "nil"
                /\ wnat' = {}
                /\ w' = w /\ cs' = cs /\ sink' = sink /\ wpc' = wpc
                /\ h'.live = h.live /\ h'.wsess = h.wsess /\ h'.written = h.written]_vars

\* A Write failed after the engine had taken a part of p: the count is
\* between 0 and len(p).
WriteReturnedPart ==
    /\ wpc = "idle" /\ wret.op = "write"
    /\ wret.err # "nil"
    /\ 0 < wret.n /\ wret.n < wret.len

====
